---------------------------- MODULE Spec2Model ----------------------------
(***************************************************************************)
(* Model of the positional CDR decoding engine of ribbon-cdr-parser        *)
(* (src/src/ribbon_cdr_parser/Ribbon_SBC_CDR_parser.py).                   *)
(*                                                                         *)
(* A Python str is modelled as a sequence of one-character strings, so     *)
(* that split, strip, substring tests and int() act on characters as the   *)
(* interpreter does.  A Python list of str is a sequence of such           *)
(* sequences.  A dict is a function whose DOMAIN is its key set.           *)
(***************************************************************************)
EXTENDS Integers, Sequences, FiniteSets, TLC

VARIABLES
    raw_cdr,                        \* the line handed to parse_cdr_to_dict
    pc,                             \* "ready" before the call, "done" after it
    outcome,                        \* "none", "returned" or "raised"
    parsed_data,                    \* the dict returned
    fields,                         \* locals of the call, kept for inspection
    cdr_fields_without_prot_data,
    cdr_fields_parsed,
    ingr_prot_data,
    egr_prot_data,
    calling_name,
    edit,                           \* the edit made to the line since it was last parsed
    call,                           \* a direct call of one of the helper functions
    result                          \* what that call gave

vars == <<raw_cdr, pc, outcome, parsed_data, fields, cdr_fields_without_prot_data,
          cdr_fields_parsed, ingr_prot_data, egr_prot_data, calling_name, edit,
          call, result>>

-----------------------------------------------------------------------------
(* Characters *)

COMMA == ","

QUOTE == "\""

SLASH == "/"

EQUALS == "="

Whitespace == {" "}

Digits == {"0", "1", "2", "3", "4", "5", "6", "7", "8", "9"}

DigitVal == [c \in Digits |->
               CASE c = "0" -> 0 [] c = "1" -> 1 [] c = "2" -> 2 [] c = "3" -> 3
                 [] c = "4" -> 4 [] c = "5" -> 5 [] c = "6" -> 6 [] c = "7" -> 7
                 [] c = "8" -> 8 [] c = "9" -> 9]

DigitChar == <<"0", "1", "2", "3", "4", "5", "6", "7", "8", "9">>

-----------------------------------------------------------------------------
(* Python str and list primitives *)

\* s1 + s2 + ... for the elements lo..hi of a list of str
RECURSIVE ConcatRange(_, _, _)
ConcatRange(ss, lo, hi) ==
    IF lo > hi THEN <<>>
    ELSE IF lo = hi THEN ss[lo]
    ELSE LET mid == (lo + hi) \div 2
         IN  ConcatRange(ss, lo, mid) \o ConcatRange(ss, mid + 1, hi)

Concat(ss) == ConcatRange(ss, 1, Len(ss))

\* str.strip(): drop leading and trailing whitespace
Strip(s) ==
    IF \A i \in 1..Len(s) : s[i] \in Whitespace THEN <<>>
    ELSE LET lo == CHOOSE i \in 1..Len(s) :
                       s[i] \notin Whitespace /\ \A j \in 1..(i - 1) : s[j] \in Whitespace
             hi == CHOOSE i \in 1..Len(s) :
                       s[i] \notin Whitespace /\ \A j \in (i + 1)..Len(s) : s[j] \in Whitespace
         IN  SubSeq(s, lo, hi)

\* the positions of character c in s[lo..hi], ascending
RECURSIVE PositionsRange(_, _, _, _)
PositionsRange(s, c, lo, hi) ==
    IF lo > hi THEN <<>>
    ELSE IF lo = hi THEN (IF s[lo] = c THEN <<lo>> ELSE <<>>)
    ELSE LET mid == (lo + hi) \div 2
         IN  PositionsRange(s, c, lo, mid) \o PositionsRange(s, c, mid + 1, hi)

Positions(s, c) == PositionsRange(s, c, 1, Len(s))

\* str.split(sep) for a one-character separator: the pieces between
\* consecutive separators, one more piece than separators
Split(s, sep) ==
    LET P == Positions(s, sep)
        n == Len(P)
    IN  [k \in 1..(n + 1) |->
            SubSeq(s, IF k = 1 THEN 1 ELSE P[k - 1] + 1,
                      IF k = n + 1 THEN Len(s) ELSE P[k] - 1)]

\* sub in s
Contains(s, sub) ==
    \E i \in 1..(Len(s) - Len(sub) + 1) : SubSeq(s, i, i + Len(sub) - 1) = sub

\* sep.join(list)
Join(ss, sep) ==
    Concat([k \in 1..Len(ss) |-> IF k = 1 THEN ss[k] ELSE <<sep>> \o ss[k]])

\* re.sub(r'"[^"]*"', '', s): the leftmost non-overlapping matches pair the
\* 1st quote with the 2nd, the 3rd with the 4th, ...; each pair is deleted
\* with the text between, a last unpaired quote is kept
ReSubQuoted(s) ==
    LET Q     == Positions(s, QUOTE)
        pairs == Len(Q) \div 2
    IN  Concat([k \in 1..(pairs + 1) |->
            SubSeq(s, IF k = 1 THEN 1 ELSE Q[2 * (k - 1)] + 1,
                      IF k = pairs + 1 THEN Len(s) ELSE Q[2 * k - 1] - 1)])

\* str.lower() on the ASCII letters
LowerChar(c) ==
    CASE c = "A" -> "a" [] c = "B" -> "b" [] c = "C" -> "c" [] c = "D" -> "d"
      [] c = "E" -> "e" [] c = "F" -> "f" [] c = "G" -> "g" [] c = "H" -> "h"
      [] c = "I" -> "i" [] c = "J" -> "j" [] c = "K" -> "k" [] c = "L" -> "l"
      [] c = "M" -> "m" [] c = "N" -> "n" [] c = "O" -> "o" [] c = "P" -> "p"
      [] c = "Q" -> "q" [] c = "R" -> "r" [] c = "S" -> "s" [] c = "T" -> "t"
      [] c = "U" -> "u" [] c = "V" -> "v" [] c = "W" -> "w" [] c = "X" -> "x"
      [] c = "Y" -> "y" [] c = "Z" -> "z" [] OTHER -> c

Lower(s) == [i \in 1..Len(s) |-> LowerChar(s[i])]

\* repr(s) of a str: single quotes, or double quotes when s holds a single
\* quote and no double quote; backslash and the chosen quote are escaped
PyReprStr(s) ==
    LET hasS == \E i \in 1..Len(s) : s[i] = "'"
        hasD == \E i \in 1..Len(s) : s[i] = QUOTE
        q    == IF hasS /\ ~hasD THEN QUOTE ELSE "'"
        esc(c) == IF c = "\\" THEN <<"\\", "\\">>
                  ELSE IF c = q THEN <<"\\", c>> ELSE <<c>>
    IN  <<q>> \o Concat([i \in 1..Len(s) |-> esc(s[i])]) \o <<q>>

\* str(list) of a list of str, as an f-string renders it
PyReprList(l) ==
    <<"[">> \o Concat([i \in 1..Len(l) |->
                         (IF i = 1 THEN <<>> ELSE <<",", " ">>) \o PyReprStr(l[i])])
           \o <<"]">>

\* int(s): surrounding whitespace is stripped, then an optional sign, then
\* digits in which single underscores may separate digits.  The value is
\* kept as sign and decimal magnitude, Python ints being unbounded.
PyIntText(t) ==
    LET signed == t # <<>> /\ t[1] \in {"+", "-"}
        body   == IF signed THEN Tail(t) ELSE t
        wellFormed ==
            /\ body # <<>>
            /\ \A i \in 1..Len(body) : body[i] \in Digits \cup {"_"}
            /\ body[1] # "_" /\ body[Len(body)] # "_"
            /\ \A i \in 1..(Len(body) - 1) : ~(body[i] = "_" /\ body[i + 1] = "_")
        ds     == SelectSeq(body, LAMBDA c : c \in Digits)
        zero   == \A i \in 1..Len(ds) : ds[i] = "0"
        mag    == IF zero THEN <<"0">>
                  ELSE SubSeq(ds, CHOOSE i \in 1..Len(ds) :
                                      ds[i] # "0" /\ \A j \in 1..(i - 1) : ds[j] = "0",
                              Len(ds))
    IN  IF wellFormed
        THEN [ok |-> TRUE, neg |-> (signed /\ t[1] = "-" /\ ~zero), mag |-> mag]
        ELSE [ok |-> FALSE, neg |-> FALSE, mag |-> <<"0">>]

PyInt(s) == PyIntText(Strip(s))

\* str(n) of an int
PyIntStr(n) == (IF n.neg THEN <<"-">> ELSE <<>>) \o n.mag

\* the value of a magnitude known to be short
RECURSIVE MagVal(_)
MagVal(m) == IF m = <<>> THEN 0 ELSE MagVal(SubSeq(m, 1, Len(m) - 1)) * 10 + DigitVal[m[Len(m)]]

\* decimal text of a natural number
RECURSIVE NatStr(_)
NatStr(n) == IF n < 10 THEN <<DigitChar[n + 1]>> ELSE NatStr(n \div 10) \o <<DigitChar[(n % 10) + 1]>>

\* lexicographic s >= t for digit strings of equal length
RECURSIVE DigitsGeq(_, _)
DigitsGeq(s, t) ==
    IF s = <<>> \/ t = <<>> THEN TRUE
    ELSE IF DigitVal[s[1]] > DigitVal[t[1]] THEN TRUE
    ELSE IF DigitVal[s[1]] < DigitVal[t[1]] THEN FALSE
    ELSE DigitsGeq(Tail(s), Tail(t))

\* Largest decimal exponent of a finite double (sys.float_info.max_10_exp).
DBL_MAX_10_EXP == 308

\* Leading digits of 2^1024 - 2^970, the least magnitude whose conversion to
\* float raises OverflowError.
DBL_OVERFLOW_PREFIX == <<"1", "7", "9", "7", "6", "9", "3", "1", "3", "4", "8", "6", "2", "3", "1", "5", "8">>

\* float(n) raises OverflowError ("int too large to convert to float")
IntTooLargeForFloat(n) ==
    \/ Len(n.mag) > DBL_MAX_10_EXP + 1
    \/ /\ Len(n.mag) = DBL_MAX_10_EXP + 1
       /\ DigitsGeq(SubSeq(n.mag, 1, Len(DBL_OVERFLOW_PREFIX)), DBL_OVERFLOW_PREFIX)

\* digit string times a small natural number, with the carry of the digits
\* to the right
RECURSIVE MulDigits(_, _, _)
MulDigits(ds, k, carry) ==
    IF ds = <<>> THEN (IF carry = 0 THEN <<>> ELSE NatStr(carry))
    ELSE MulDigits(SubSeq(ds, 1, Len(ds) - 1), k,
                   (DigitVal[ds[Len(ds)]] * k + carry) \div 10)
             \o <<DigitChar[((DigitVal[ds[Len(ds)]] * k + carry) % 10) + 1]>>

\* a >= m * 10^e for digit strings a and m without leading zeros
GeqScaled(a, m, e) ==
    \/ Len(a) > Len(m) + e
    \/ Len(a) = Len(m) + e /\ DigitsGeq(SubSeq(a, 1, Len(m)), m)

\* Longest magnitude whose arithmetic is carried out on machine integers here.
SmallDigits == 5

\* a / b raises OverflowError ("integer division result too large for a
\* float") when a >= b * (2^1024 - 2^970): tested on the leading digits of
\* that bound and on the leading SmallDigits digits of b
DivTooLargeForFloat(a, b) ==
    GeqScaled(a.mag,
              MulDigits(DBL_OVERFLOW_PREFIX,
                        MagVal(SubSeq(b.mag, 1, IF Len(b.mag) < SmallDigits THEN Len(b.mag)
                                                ELSE SmallDigits)), 0),
              (DBL_MAX_10_EXP + 1 - Len(DBL_OVERFLOW_PREFIX))
                 + (IF Len(b.mag) < SmallDigits THEN 0 ELSE Len(b.mag) - SmallDigits))

-----------------------------------------------------------------------------
(* Literals *)

NA == <<"N", "/", "A">>

NA_GWGW == <<"N", "/", "A", " ", "(", "G", "W", "-", "G", "W", " ", "c", "a", "l", "l", ")">>

SIP == <<"S", "I", "P">>

GSX2GSX == <<"G", "S", "X", "2", "G", "S", "X">>

START == <<"S", "T", "A", "R", "T">>

ATTEMPT == <<"A", "T", "T", "E", "M", "P", "T">>

STOP == <<"S", "T", "O", "P">>

UNKNOWN_CODE == <<"U", "n", "k", "n", "o", "w", "n", " ", "C", "o", "d", "e">>

-----------------------------------------------------------------------------
(* Lookup tables of cdr_field_mappings *)

\* sip_cause_code_mapping: "sip_<code>" -> friendly name
sip_cause_code_mapping ==
    (<<"s", "i", "p", "_", "2", "0", "0">> :> <<"O", "K">>) @@ (<<"s", "i", "p", "_", "4", "0", "4">> :> <<"N", "o", "t", " ", "F", "o", "u", "n", "d">>) @@ (<<"s", "i", "p", "_", "4", "8", "6">> :> <<"B", "u", "s", "y", " ", "H", "e", "r", "e">>)
        @@ (<<"s", "i", "p", "_", "B", "Y", "E">> :> <<"B", "y", "e", " ", "R", "e", "q", "u", "e", "s", "t">>)

\* cdr_disconnect_reason: "DR<code>" -> friendly text
cdr_disconnect_reason ==
    (<<"D", "R", "1", "6">> :> <<"N", "o", "r", "m", "a", "l", " ", "C", "a", "l", "l", " ", "C", "l", "e", "a", "r", "i", "n", "g">>) @@ (<<"D", "R", "2", "1">> :> <<"C", "a", "l", "l", " ", "R", "e", "j", "e", "c", "t", "e", "d">>)

\* dict.get(key, default)
DictGet(d, key, default) == IF key \in DOMAIN d THEN d[key] ELSE default

\* d.update(e): the entries of e win
Update(d, e) == e @@ d

\* d.setdefault(key, value)
SetDefault(d, key, value) == IF key \in DOMAIN d THEN d ELSE (key :> value) @@ d

EmptyDict == [k \in {} |-> <<>>]

\* the 1-based positions that tests/test_mappings_alignment.py anchors in
\* field_mappings
field_mappings_anchor(cdr_type, label) ==
    CASE cdr_type = "START" /\ label = "Record Type" -> 1
      [] cdr_type = "START" /\ label = "Calling Number" -> 15
      [] cdr_type = "START" /\ label = "Called Number" -> 16
      [] cdr_type = "ATTEMPT" /\ label = "Record Type" -> 1
      [] cdr_type = "ATTEMPT" /\ label = "Calling Number" -> 17
      [] cdr_type = "ATTEMPT" /\ label = "Called Number" -> 18
      [] cdr_type = "STOP" /\ label = "Record Type" -> 1
      [] cdr_type = "STOP" /\ label = "Call Service Duration" -> 14
      [] cdr_type = "STOP" /\ label = "Call Disconnect Reason" -> 15

-----------------------------------------------------------------------------
(* Helpers of the parser *)

\* safe_get(seq, idx, default) for a list and an int index (0-based)
safe_get(seq, idx, default) ==
    IF idx < 0 \/ idx >= Len(seq) THEN default ELSE seq[idx + 1]

\* the try block of safe_get on values of any type: a value is a record of
\* its Python type with its items (list, tuple) or its number (int, bool,
\* float); exc tells that the block raised
safe_get_try(seq, idx, default) ==
    IF seq.type = "NoneType" THEN [exc |-> FALSE, value |-> default]
    ELSE IF idx.type \notin {"int", "bool"} THEN [exc |-> FALSE, value |-> default]
    ELSE IF seq.type \notin {"list", "tuple"} THEN [exc |-> TRUE, value |-> default]
    ELSE [exc |-> FALSE, value |-> safe_get(seq.items, idx.val, default)]

\* safe_get without its except clause
safe_get_any_NoExcept(seq, idx, default) ==
    [raised |-> safe_get_try(seq, idx, default).exc,
     value  |-> safe_get_try(seq, idx, default).value]

\* safe_get as a whole: `except Exception` turns a raise into the default
safe_get_any(seq, idx, default) ==
    [raised |-> FALSE,
     value  |-> IF safe_get_try(seq, idx, default).exc THEN default
                ELSE safe_get_try(seq, idx, default).value]

get_codec_value(codec) ==
    IF codec = <<"P", ":", "4", ":", "0">> THEN <<"G", ".", "7", "2", "9", "A">>
    ELSE IF codec = <<"P", ":", "2", ":", "1">> THEN <<"G", ".", "7", "1", "1", " ", "w", "/", " ", "S", "i", "l", "e", "n", "c", "e", " ", "S", "u", "p", "p", "r", "e", "s", "s", "i", "o", "n">>
    ELSE IF codec = <<"P", ":", "1", ":", "1">> THEN <<"G", ".", "7", "1", "1", " ", "u", "-", "l", "a", "w">>
    ELSE IF codec = <<"P", ":", "6", ":", "0">> THEN <<"F", "a", "x", " ", "R", "e", "l", "a", "y">>
    ELSE NA

\* DeviceNameOf always reading the 2nd '='-delimited segment
DeviceNameOf_NoTransportShift(h, hl) ==
    IF ~(\E token \in {<<"c", "s", "f">>, <<"s", "e", "p">>, <<"v", "m", "s">>} : Contains(hl, token)) THEN NA
    ELSE LET parts == Split(h, EQUALS)
         IN  IF Len(parts) > 1 /\ Strip(parts[2]) # <<>>
             THEN Strip(parts[2])
             ELSE NA

\* the body of extract_device_name_from_contact on the stripped header h and
\* its lower-case form hl
DeviceNameOf(h, hl) ==
    IF ~(\E token \in {<<"c", "s", "f">>, <<"s", "e", "p">>, <<"v", "m", "s">>} : Contains(hl, token)) THEN NA
    ELSE LET parts      == Split(h, EQUALS)
             want_index == IF Contains(hl, <<"t", "r", "a", "n", "s", "p", "o", "r", "t">>) THEN 2 ELSE 1
         IN  IF Len(parts) > want_index /\ Strip(parts[want_index + 1]) # <<>>
             THEN Strip(parts[want_index + 1])
             ELSE NA

extract_device_name_from_contact(inv_contact_header) ==
    IF inv_contact_header = <<>> THEN NA
    ELSE DeviceNameOf(Strip(inv_contact_header), Lower(Strip(inv_contact_header)))

CallIdKey(side_prefix) == IF side_prefix = "ingress" THEN "ingress_call_id" ELSE "egress_call_id"

StatusKey(side_prefix) == IF side_prefix = "ingress" THEN "ingress_status" ELSE "egress_status"

DeviceKey(side_prefix) == IF side_prefix = "ingress" THEN "ing_device_name" ELSE "egr_device_name"

\* Number of tokens a leg trace needs (index 18 must exist).
MinProtTokens == 19

\* parse_prot_data_side without the special case of the code BYE
parse_prot_data_side_NoByeCase(prot_data, side_prefix, contact_idx) ==
    LET out0 == (CallIdKey(side_prefix) :> NA) @@ (StatusKey(side_prefix) :> NA)
    IN  IF Len(prot_data) < MinProtTokens THEN out0
        ELSE LET call_id      == Strip(safe_get(prot_data, 1, <<>>))
                 status_code  == Strip(safe_get(prot_data, 18, <<>>))
                 sip_key      == IF status_code # <<>> THEN <<"s", "i", "p", "_">> \o status_code
                                 ELSE <<"s", "i", "p", "_", "U", "N", "K", "N", "O", "W", "N">>
                 sip_name     == DictGet(sip_cause_code_mapping, sip_key, UNKNOWN_CODE)
                 code_display == IF status_code # <<>> THEN status_code ELSE <<"U", "N", "K", "N", "O", "W", "N">>
                 inv_contact_header == safe_get(prot_data, contact_idx, <<>>)
             IN  (DeviceKey(side_prefix) :> extract_device_name_from_contact(inv_contact_header))
                 @@ (StatusKey(side_prefix) :> code_display \o <<" ", "(">> \o sip_name \o <<")">>)
                 @@ (CallIdKey(side_prefix) :> IF call_id # <<>> THEN call_id ELSE NA)

\* parse_prot_data_side with the length test off by one
parse_prot_data_side_OffByOne(prot_data, side_prefix, contact_idx) ==
    LET out0 == (CallIdKey(side_prefix) :> NA) @@ (StatusKey(side_prefix) :> NA)
    IN  IF Len(prot_data) < MinProtTokens - 1 THEN out0
        ELSE LET call_id      == Strip(safe_get(prot_data, 1, <<>>))
                 status_code  == Strip(safe_get(prot_data, 18, <<>>))
                 sip_key      == IF status_code # <<>> THEN <<"s", "i", "p", "_">> \o status_code
                                 ELSE <<"s", "i", "p", "_", "U", "N", "K", "N", "O", "W", "N">>
                 sip_name     == IF sip_key # <<"s", "i", "p", "_", "B", "Y", "E">>
                                 THEN DictGet(sip_cause_code_mapping, sip_key, UNKNOWN_CODE)
                                 ELSE <<"B", "Y", "E">>
                 code_display == IF status_code # <<>> THEN status_code ELSE <<"U", "N", "K", "N", "O", "W", "N">>
                 inv_contact_header == safe_get(prot_data, contact_idx, <<>>)
             IN  (DeviceKey(side_prefix) :> extract_device_name_from_contact(inv_contact_header))
                 @@ (StatusKey(side_prefix) :> code_display \o <<" ", "(">> \o sip_name \o <<")">>)
                 @@ (CallIdKey(side_prefix) :> IF call_id # <<>> THEN call_id ELSE NA)

parse_prot_data_side(prot_data, side_prefix, contact_idx) ==
    LET out0 == (CallIdKey(side_prefix) :> NA) @@ (StatusKey(side_prefix) :> NA)
    IN  IF Len(prot_data) < MinProtTokens THEN out0
        ELSE LET call_id      == Strip(safe_get(prot_data, 1, <<>>))
                 status_code  == Strip(safe_get(prot_data, 18, <<>>))
                 sip_key      == IF status_code # <<>> THEN <<"s", "i", "p", "_">> \o status_code
                                 ELSE <<"s", "i", "p", "_", "U", "N", "K", "N", "O", "W", "N">>
                 sip_name     == IF sip_key # <<"s", "i", "p", "_", "B", "Y", "E">>
                                 THEN DictGet(sip_cause_code_mapping, sip_key, UNKNOWN_CODE)
                                 ELSE <<"B", "Y", "E">>
                 code_display == IF status_code # <<>> THEN status_code ELSE <<"U", "N", "K", "N", "O", "W", "N">>
                 inv_contact_header == safe_get(prot_data, contact_idx, <<>>)
             IN  (DeviceKey(side_prefix) :> extract_device_name_from_contact(inv_contact_header))
                 @@ (StatusKey(side_prefix) :> code_display \o <<" ", "(">> \o sip_name \o <<")">>)
                 @@ (CallIdKey(side_prefix) :> IF call_id # <<>> THEN call_id ELSE NA)

-----------------------------------------------------------------------------
(* Derivations inlined in parse_cdr_to_dict *)

\* f"DR{dr_code}" looked up in cdr_disconnect_reason
DisconnectReason(dr_code) ==
    LET disconnect_reason == IF dr_code # <<>> THEN <<"D", "R">> \o dr_code ELSE <<"d", "r", "U", "N", "K", "N", "O", "W", "N">>
        disconnect_name   == DictGet(cdr_disconnect_reason, disconnect_reason, UNKNOWN_CODE)
    IN  disconnect_reason \o <<" ", "(">> \o disconnect_name \o <<")">>

ServiceProvider(service_provider) == IF service_provider # <<>> THEN service_provider ELSE NA

\* calling_name is a list: the f-string renders its repr
CallingNumber(calling_number, name) ==
    IF name # <<>>
    THEN calling_number \o <<" ", "(">> \o PyReprList(name) \o <<")">>
    ELSE calling_number

RouteLabel(route_label) == IF route_label = <<>> THEN NA_GWGW ELSE route_label

DisconnectInitiator(disconnect_initiator) ==
    IF disconnect_initiator = <<"0">> THEN disconnect_initiator \o <<" ", "(", "I", "n", "t", "e", "r", "n", "a", "l", ")">>
    ELSE IF disconnect_initiator = <<"1">> THEN disconnect_initiator \o <<" ", "(", "C", "a", "l", "l", "i", "n", "g", " ", "P", "a", "r", "t", "y", ")">>
    ELSE IF disconnect_initiator = <<"2">> THEN disconnect_initiator \o <<" ", "(", "C", "a", "l", "l", "e", "d", " ", "P", "a", "r", "t", "y", ")">>
    ELSE IF disconnect_initiator # <<>> THEN disconnect_initiator \o <<" ", "(", "I", "n", "v", "a", "l", "i", "d", " ", "v", "a", "l", "u", "e", " ", "f", "o", "u", "n", "d", ")">>
    ELSE NA

\* RtpIpPort without the test for "/"
RtpIpPort_NoSlashTest(rtp_ip_port, local_key, remote_key) ==
    IF rtp_ip_port # <<>>
    THEN LET parts == Split(Strip(rtp_ip_port), SLASH)
         IN  (local_key :> safe_get(parts, 0, <<>>)) @@ (remote_key :> safe_get(parts, 1, <<>>))
    ELSE EmptyDict

\* the two RTP keys of one side, set only when the field holds a "/"
RtpIpPort(rtp_ip_port, local_key, remote_key) ==
    IF rtp_ip_port # <<>> /\ Contains(rtp_ip_port, <<SLASH>>)
    THEN LET parts == Split(Strip(rtp_ip_port), SLASH)
         IN  (local_key :> safe_get(parts, 0, <<>>)) @@ (remote_key :> safe_get(parts, 1, <<>>))
    ELSE EmptyDict

\* f"{lost} ({pct:.1f}%)" whose digits of pct are not computed here; the
\* first element tells it from a computed str
PctNotComputed(lost, rcvd) ==
    <<"str: lost (pct%)">> \o PyIntStr(lost) \o <<SLASH>> \o PyIntStr(rcvd)

\* f"{lost} ({pct:.1f}%)" with pct = (lost / rcvd) * 100, for operands of at
\* most SmallDigits digits: the percentage in tenths, rounded to nearest.
\* When the percentage lies halfway between two tenths and lost / rcvd is a
\* binary fraction, the float is exact and the format rounds to the even
\* tenth; at the other halfway points, and for longer operands, the digits
\* depend on the rounding of the float quotient and are not computed.
PctText(lost, rcvd) ==
    IF Len(lost.mag) <= SmallDigits /\ Len(rcvd.mag) <= SmallDigits
    THEN LET l      == MagVal(lost.mag)
             r      == MagVal(rcvd.mag)
             q      == (l * 1000) \div r
             rem    == (l * 1000) % r
             tenths == IF 2 * rem > r THEN q + 1
                       ELSE IF 2 * rem < r THEN q
                       ELSE IF q % 2 = 0 THEN q ELSE q + 1
         IN  IF 2 * rem = r /\ (2 * q + 1) % 125 # 0
             THEN PctNotComputed(lost, rcvd)
             ELSE PyIntStr(lost) \o <<" ", "(">> \o NatStr(tenths \div 10) \o <<".">>
                      \o NatStr(tenths % 10) \o <<"%", ")">>
    ELSE PctNotComputed(lost, rcvd)

\* the try block that rewrites <side>_packets_lost, on the two counts
\* converted by int()
PacketsLostOf(rcvd, lost, lost_raw) ==
    IF ~rcvd.ok \/ ~lost.ok THEN [raised |-> FALSE, value |-> lost_raw]
    ELSE IF ~lost.neg /\ ~rcvd.neg /\ rcvd.mag # <<"0">>
         THEN IF DivTooLargeForFloat(lost, rcvd)
              THEN [raised |-> TRUE, value |-> lost_raw]
              ELSE [raised |-> FALSE, value |-> PctText(lost, rcvd)]
         ELSE [raised |-> FALSE, value |-> PyIntStr(lost)]

PacketsLost(rcvd_raw, lost_raw) == PacketsLostOf(PyInt(rcvd_raw), PyInt(lost_raw), lost_raw)

\* the float that is n hundredths, written as the decimal text of n; the
\* first element tells it from a str
FloatOfHundredths(n) == <<"float: hundredths">> \o PyIntStr(n)

\* round(n * 0.01, 2) for n = int(duration_raw): the float is kept as the
\* integer count of hundredths it was computed from
DurationOf(n) ==
    IF ~n.ok THEN [raised |-> FALSE, value |-> NA]
    ELSE IF IntTooLargeForFloat(n) THEN [raised |-> TRUE, value |-> NA]
    ELSE [raised |-> FALSE, value |-> FloatOfHundredths(n)]

Duration(duration_raw) == DurationOf(PyInt(duration_raw))

-----------------------------------------------------------------------------
(* The three type branches of parse_cdr_to_dict *)

AttemptBranch(f, u, name) ==
    [raised |-> FALSE,
     entries |->
        ("disconnect_time" :> safe_get(f, 9, <<>>))
     @@ ("duration" :> NA)
     @@ ("disconnect_reason" :> DisconnectReason(safe_get(f, 11, <<>>)))
     @@ ("service_provider" :> ServiceProvider(safe_get(f, 14, <<>>)))
     @@ ("calling_number" :> CallingNumber(safe_get(f, 16, <<>>), name))
     @@ ("called_number" :> safe_get(f, 17, <<>>))
     @@ ("billing_number" :> safe_get(f, 24, <<>>))
     @@ ("route_label" :> RouteLabel(safe_get(f, 25, <<>>)))
     @@ ("route_attempt_num" :> safe_get(f, 26, <<>>))
     @@ ("route_selected" :> safe_get(f, 27, <<>>))
     @@ ("ingress_tg" :> safe_get(f, 30, <<>>))
     @@ ("disconnect_initiator" :> DisconnectInitiator(safe_get(u, 56, <<>>)))
     @@ ("egress_tg" :> safe_get(u, 57, <<>>))
     @@ ("ingress_codec" :> get_codec_value(safe_get(u, 68, <<>>)))
     @@ ("egress_codec" :> get_codec_value(safe_get(u, 69, <<>>)))
     @@ ("sbc_call_id" :> safe_get(u, 71, <<>>))
     @@ ("ingress_local_ip" :> safe_get(u, 114, <<>>))
     @@ ("ingress_remote_ip" :> safe_get(u, 115, <<>>))
     @@ RtpIpPort(safe_get(f, 32, <<>>), "ingress_local_rtp_ip", "ingress_remote_rtp_ip")
     @@ ("ingress_audio_packets_sent" :> NA)
     @@ ("ingress_audio_packets_rcvd" :> NA)
     @@ ("ingress_packets_lost" :> NA)
     @@ ("egress_local_ip" :> safe_get(f, 28, <<>>))
     @@ ("egress_remote_ip" :> safe_get(f, 29, <<>>))
     @@ RtpIpPort(safe_get(f, 34, <<>>), "egress_local_rtp_ip", "egress_remote_rtp_ip")
     @@ ("egress_audio_packets_sent" :> NA)
     @@ ("egress_audio_packets_rcvd" :> NA)
     @@ ("egress_packets_lost" :> NA)
     @@ ("stop_date" :> safe_get(u, 104, <<>>))]

\* the STOP branch once the duration and the two packets-lost blocks ran
StopEntries(f, u, name, duration, ingress_lost, egress_lost) ==
    [raised |-> duration.raised \/ ingress_lost.raised \/ egress_lost.raised,
     entries |->
        ("stop_date" :> safe_get(f, 10, <<>>))
     @@ ("disconnect_time" :> safe_get(f, 11, <<>>))
     @@ ("duration" :> duration.value)
     @@ ("disconnect_reason" :> DisconnectReason(safe_get(f, 14, <<>>)))
     @@ ("service_provider" :> ServiceProvider(safe_get(f, 17, <<>>)))
     @@ ("calling_number" :> CallingNumber(safe_get(f, 19, <<>>), name))
     @@ ("called_number" :> safe_get(f, 20, <<>>))
     @@ ("billing_number" :> safe_get(f, 27, <<>>))
     @@ ("route_label" :> RouteLabel(safe_get(f, 28, <<>>)))
     @@ ("route_attempt_num" :> safe_get(f, 29, <<>>))
     @@ ("route_selected" :> safe_get(f, 30, <<>>))
     @@ ("ingress_tg" :> safe_get(f, 33, <<>>))
     @@ ("disconnect_initiator" :> DisconnectInitiator(safe_get(u, 63, <<>>)))
     @@ ("egress_tg" :> safe_get(u, 67, <<>>))
     @@ ("ingress_codec" :> get_codec_value(safe_get(u, 78, <<>>)))
     @@ ("egress_codec" :> get_codec_value(safe_get(u, 79, <<>>)))
     @@ ("sbc_call_id" :> safe_get(u, 81, <<>>))
     @@ ("ingress_local_ip" :> safe_get(u, 124, <<>>))
     @@ ("ingress_remote_ip" :> safe_get(u, 125, <<>>))
     @@ RtpIpPort(safe_get(f, 35, <<>>), "ingress_local_rtp_ip", "ingress_remote_rtp_ip")
     @@ ("ingress_audio_packets_sent" :> safe_get(f, 39, <<>>))
     @@ ("ingress_audio_packets_rcvd" :> safe_get(f, 41, <<>>))
     @@ ("ingress_packets_lost" :> ingress_lost.value)
     @@ ("egress_local_ip" :> safe_get(f, 31, <<>>))
     @@ ("egress_remote_ip" :> safe_get(f, 32, <<>>))
     @@ RtpIpPort(safe_get(f, 37, <<>>), "egress_local_rtp_ip", "egress_remote_rtp_ip")
     @@ ("egress_audio_packets_sent" :> safe_get(u, 145, <<>>))
     @@ ("egress_audio_packets_rcvd" :> safe_get(u, 147, <<>>))
     @@ ("egress_packets_lost" :> egress_lost.value)]

StopBranch(f, u, name) ==
    StopEntries(f, u, name,
                Duration(safe_get(f, 13, <<>>)),
                PacketsLost(safe_get(f, 41, <<>>), safe_get(u, 64, <<>>)),
                PacketsLost(safe_get(u, 147, <<>>), safe_get(u, 148, <<>>)))

StartBranch(f, u, name) ==
    [raised |-> FALSE,
     entries |->
        ("disconnect_time" :> NA)
     @@ ("duration" :> NA)
     @@ ("disconnect_reason" :> NA)
     @@ ("service_provider" :> ServiceProvider(safe_get(f, 12, <<>>)))
     @@ ("calling_number" :> CallingNumber(safe_get(f, 15, <<>>), name))
     @@ ("called_number" :> safe_get(f, 16, <<>>))
     @@ ("billing_number" :> safe_get(f, 22, <<>>))
     @@ ("route_label" :> RouteLabel(safe_get(f, 23, <<>>)))
     @@ ("route_attempt_num" :> safe_get(f, 24, <<>>))
     @@ ("route_selected" :> safe_get(f, 25, <<>>))
     @@ ("ingress_tg" :> safe_get(f, 28, <<>>))
     @@ ("disconnect_initiator" :> NA)
     @@ ("egress_tg" :> safe_get(u, 53, <<>>))
     @@ ("ingress_codec" :> NA)
     @@ ("egress_codec" :> NA)
     @@ ("sbc_call_id" :> safe_get(u, 64, <<>>))
     @@ ("ingress_local_ip" :> safe_get(u, 101, <<>>))
     @@ ("ingress_remote_ip" :> safe_get(u, 102, <<>>))
     @@ RtpIpPort(safe_get(f, 30, <<>>), "ingress_local_rtp_ip", "ingress_remote_rtp_ip")
     @@ ("ingress_audio_packets_sent" :> NA)
     @@ ("ingress_audio_packets_rcvd" :> NA)
     @@ ("ingress_packets_lost" :> NA)
     @@ ("egress_local_ip" :> safe_get(f, 26, <<>>))
     @@ ("egress_remote_ip" :> safe_get(f, 27, <<>>))
     @@ RtpIpPort(safe_get(f, 32, <<>>), "egress_local_rtp_ip", "egress_remote_rtp_ip")
     @@ ("egress_audio_packets_sent" :> NA)
     @@ ("egress_audio_packets_rcvd" :> NA)
     @@ ("egress_packets_lost" :> NA)]

-----------------------------------------------------------------------------
(* parse_cdr_to_dict *)

\* the three token lists the parser derives from the line
TokFields(line) == Split(Strip(line), COMMA)

\* TokUnquoted without the removal of the quoted spans
TokUnquoted_NoSub(line) == Split(Strip(line), COMMA)

TokUnquoted(line) == Split(Strip(ReSubQuoted(line)), COMMA)

TokQuoteSplit(line) == Split(Strip(line), QUOTE)

\* the checker field that decides whether an ingress trace is present
IngrProtDataCk(cdr_type, f) ==
    IF cdr_type = ATTEMPT THEN safe_get(f, 44, <<>>)
    ELSE IF cdr_type = STOP THEN safe_get(f, 51, <<>>)
    ELSE IF cdr_type = START THEN safe_get(f, 41, <<>>)
    ELSE <<>>

\* raw.split(",") if raw else []
SplitOrEmpty(raw) == IF raw # <<>> THEN Split(raw, COMMA) ELSE <<>>

\* IngrProtData without the test of the checker field
IngrProtData_NoCheckerTest(ck, p) == SplitOrEmpty(Strip(safe_get(p, 1, <<>>)))

IngrProtData(ck, p) ==
    IF Contains(ck, SIP) \/ Contains(ck, GSX2GSX)
    THEN SplitOrEmpty(Strip(safe_get(p, 1, <<>>)))
    ELSE <<>>

\* an egress trace none of whose tokens holds "SIP" is discarded
DropUnlessSipToken(tokens) ==
    IF ~(\E i \in 1..Len(tokens) : Contains(tokens[i], SIP)) THEN <<>> ELSE tokens

\* EgrProtData reading piece 5 of the quote split for the egress trace
EgrProtData_Piece5(ck, p) ==
    DropUnlessSipToken(SplitOrEmpty(IF Contains(ck, SIP) \/ Contains(ck, GSX2GSX)
                                    THEN Strip(safe_get(p, 5, <<>>))
                                    ELSE Strip(safe_get(p, 1, <<>>))))

EgrProtData(ck, p) ==
    DropUnlessSipToken(SplitOrEmpty(IF Contains(ck, SIP) \/ Contains(ck, GSX2GSX)
                                    THEN Strip(safe_get(p, 3, <<>>))
                                    ELSE Strip(safe_get(p, 1, <<>>))))

CallingName(p) == SplitOrEmpty(Strip(safe_get(p, 5, <<>>)))

\* CommonEntries without the two setdefault calls
CommonEntries_NoSetDefault(f, p) ==
    LET cdr_type     == safe_get(f, 0, <<>>)
        ck           == IngrProtDataCk(cdr_type, f)
        d1 == "calling_name" :> [list |-> CallingName(p)]
        d2 == Update(d1, parse_prot_data_side(IngrProtData(ck, p), "ingress", 12))
        d3 == Update(d2, parse_prot_data_side(EgrProtData(ck, p), "egress", 13))
    IN  ("cdr_type" :> cdr_type)
     @@ ("gateway_name" :> safe_get(f, 1, <<>>))
     @@ ("start_date" :> safe_get(f, 5, <<>>))
     @@ ("start_time" :> safe_get(f, 6, <<>>))
     @@ d3

\* CommonEntries reading the egress contact header where the ingress one is
CommonEntries_SameContactIdx(f, p) ==
    LET cdr_type     == safe_get(f, 0, <<>>)
        ck           == IngrProtDataCk(cdr_type, f)
        d1 == "calling_name" :> [list |-> CallingName(p)]
        d2 == Update(d1, parse_prot_data_side(IngrProtData(ck, p), "ingress", 12))
        d3 == Update(d2, parse_prot_data_side(EgrProtData(ck, p), "egress", 12))
        d4 == SetDefault(d3, "ing_device_name", NA)
        d5 == SetDefault(d4, "egr_device_name", NA)
    IN  ("cdr_type" :> cdr_type)
     @@ ("gateway_name" :> safe_get(f, 1, <<>>))
     @@ ("start_date" :> safe_get(f, 5, <<>>))
     @@ ("start_time" :> safe_get(f, 6, <<>>))
     @@ d5

\* the keys set before the type branches
CommonEntries(f, p) ==
    LET cdr_type     == safe_get(f, 0, <<>>)
        ck           == IngrProtDataCk(cdr_type, f)
        d1 == "calling_name" :> [list |-> CallingName(p)]
        d2 == Update(d1, parse_prot_data_side(IngrProtData(ck, p), "ingress", 12))
        d3 == Update(d2, parse_prot_data_side(EgrProtData(ck, p), "egress", 13))
        d4 == SetDefault(d3, "ing_device_name", NA)
        d5 == SetDefault(d4, "egr_device_name", NA)
    IN  ("cdr_type" :> cdr_type)
     @@ ("gateway_name" :> safe_get(f, 1, <<>>))
     @@ ("start_date" :> safe_get(f, 5, <<>>))
     @@ ("start_time" :> safe_get(f, 6, <<>>))
     @@ d5

\* TypeBranch treating every other first field as START
TypeBranch_ElseStart(f, u, name) ==
    IF safe_get(f, 0, <<>>) = ATTEMPT THEN AttemptBranch(f, u, name)
    ELSE IF safe_get(f, 0, <<>>) = STOP THEN StopBranch(f, u, name)
    ELSE StartBranch(f, u, name)

\* the branch taken on the record type
TypeBranch(f, u, name) ==
    IF safe_get(f, 0, <<>>) = ATTEMPT THEN AttemptBranch(f, u, name)
    ELSE IF safe_get(f, 0, <<>>) = STOP THEN StopBranch(f, u, name)
    ELSE IF safe_get(f, 0, <<>>) = START THEN StartBranch(f, u, name)
    ELSE [raised |-> FALSE, entries |-> EmptyDict]

\* The outcome of one call on the three token lists: raised tells whether an
\* exception escaped, and parsed_data is the dict returned when none did.
parse_cdr_to_dict(f, u, p, branch) ==
    [raised      |-> branch.raised,
     parsed_data |-> IF branch.raised THEN EmptyDict
                     ELSE Update(CommonEntries(f, p), branch.entries)]

-----------------------------------------------------------------------------
(* Input lines *)

\* Longest line of the exhaustive family of short lines.
MaxShortLen == 4

\* Number of digits of the long numeric field.
BigDigits == 310

ShortAlphabet == {COMMA, QUOTE, " ", "a"}

ShortLines == UNION {[1..n -> ShortAlphabet] : n \in 0..MaxShortLen}

\* "CDR" stands for a first field that is no record type
RecordTypes == {START, ATTEMPT, STOP, <<"C", "D", "R">>}

\* 0-based positions of the ingress trace, the egress trace and the calling
\* name among the top-level fields, and the length of a complete record
Layout(cdr_type) ==
    IF cdr_type = ATTEMPT THEN [ingr |-> 44, egr |-> 58, name |-> 96, len |-> 118]
    ELSE IF cdr_type = STOP THEN [ingr |-> 51, egr |-> 68, name |-> 105, len |-> 150]
    ELSE [ingr |-> 41, egr |-> 54, name |-> 86, len |-> 104]

\* the 20 comma-separated tokens of a leg trace
TraceTokens(side) ==
    [k \in 1..20 |->
        IF k = 1 THEN SIP
        ELSE IF k = 2 THEN (IF side = "ingress" THEN <<" ", "c", "i", "@", "h", " ">> ELSE <<"c", "e", "@", "h">>)
        ELSE IF k = 13 THEN (IF side = "ingress" THEN <<"s", "i", "p", ":", "u", ";", "d", "=", "S", "E", "P", "I", ";", "x">> ELSE <<"d", "=", "C", "S", "F", "X">>)
        ELSE IF k = 14 THEN (IF side = "ingress" THEN <<"d", "=", "S", "E", "P", "X">> ELSE <<"s", "i", "p", ":", "u", ";", "t", "r", "a", "n", "s", "p", "o", "r", "t", "=", "t", "c", "p", ";", "d", "=", "V", "M", "S", "E", " ">>)
        ELSE IF k = 19 THEN (IF side = "ingress" THEN <<"2", "0", "0">> ELSE <<"B", "Y", "E">>)
        ELSE IF k = 20 THEN <<"z">>
        ELSE <<>>]

\* a quoted trace of the first k tokens; no field at all when k = 0
TraceBlob(side, k) ==
    IF k = 0 THEN <<>>
    ELSE <<QUOTE>> \o Join(SubSeq(TraceTokens(side), 1, k), COMMA) \o <<QUOTE>>

TraceLens == {0, 2, 18, 19, 20}

NameBlobs == {<<>>, <<"\"", "B", "o", "b", "\"">>, <<"\"", "A", "l", ",", "J", "r", "\"">>}

\* the filler of an ordinary field: unique per position
Filler(i) == <<"f">> \o NatStr(i)

\* the line of n top-level fields: the type, the three quoted fields, the
\* overrides in over (0-based position -> text), fillers or blanks elsewhere
BuildLine(cdr_type, n, fill, ik, ek, nb, over) ==
    LET lay == Layout(cdr_type)
        cell(i) == IF i = 0 THEN cdr_type
                   ELSE IF i \in DOMAIN over THEN over[i]
                   ELSE IF i = lay.ingr THEN TraceBlob("ingress", ik)
                   ELSE IF i = lay.egr THEN TraceBlob("egress", ek)
                   ELSE IF i = lay.name THEN nb
                   ELSE IF fill THEN Filler(i) ELSE <<>>
    IN  Join([k \in 1..n |-> cell(k - 1)], COMMA)

NoOver == [i \in {} |-> <<>>]

\* records cut short before the first quoted field
TruncatedLines ==
    {BuildLine(t, n, fill, 0, 0, <<>>, NoOver) :
        t \in RecordTypes, n \in {1, 2, 18}, fill \in BOOLEAN}

\* complete records with every combination of traces and calling name
CompleteLines ==
    UNION {{BuildLine(t, Layout(t).len, fill, ik, ek, nb, NoOver) :
                ik \in TraceLens, ek \in TraceLens, nb \in NameBlobs} :
           t \in RecordTypes, fill \in BOOLEAN}

BigNumber == [i \in 1..BigDigits |-> "9"]

DurationTexts == {<<"3", "0", "6">>, <<"0">>, <<"a", "b", "c">>, <<>>, <<"-", "5">>, <<" ", "1", "2", " ">>, <<"1", "_", "0">>, BigNumber}

PacketTexts == {<<>>, <<"0">>, <<"1">>, <<"1", "6">>, <<"1", "2", "9">>, <<"2", "0", "6", "4", "0">>, <<"-", "1">>, <<" ", "7", " ">>, <<"x">>, BigNumber}

\* STOP records that vary the numeric fields
NumericLines ==
       {BuildLine(STOP, Layout(STOP).len, FALSE, 0, 0, <<>>, (13 :> d)) : d \in DurationTexts}
    \cup {BuildLine(STOP, Layout(STOP).len, FALSE, 0, 0, <<>>, (41 :> r) @@ (64 :> l)) :
             r \in PacketTexts, l \in PacketTexts}
    \cup {BuildLine(STOP, Layout(STOP).len, FALSE, 0, 0, <<>>, (147 :> r) @@ (148 :> l)) :
             r \in PacketTexts, l \in PacketTexts}

RtpTexts == {<<>>, <<"a", ":", "1", "/", "b", ":", "2">>, <<"a", "/", "b", "/", "c">>, <<"x">>, <<" ", "/">>}

\* 0-based positions of the ingress and egress RTP ip:port fields
RtpIndex(cdr_type, side) ==
    IF cdr_type = ATTEMPT THEN (IF side = "ingress" THEN 32 ELSE 34)
    ELSE IF cdr_type = STOP THEN (IF side = "ingress" THEN 35 ELSE 37)
    ELSE (IF side = "ingress" THEN 30 ELSE 32)

\* records that vary the two RTP ip:port fields
RtpLines ==
    {BuildLine(t, Layout(t).len, FALSE, 0, 0, <<>>,
               (RtpIndex(t, "ingress") :> ri) @@ (RtpIndex(t, "egress") :> re)) :
        t \in RecordTypes, ri \in RtpTexts, re \in RtpTexts}

\* records with two more quoted fields after the calling name, five in all
FiveSpanLines ==
    {BuildLine(t, Layout(t).len, fill, 20, ek, nb,
               (Layout(t).name + 4 :> <<"\"", "9", "6", ",", "8", "4", "\"">>) @@ (Layout(t).name + 6 :> <<"\"", "S", "I", "P", ",", "q", "5", "\"">>)) :
        t \in RecordTypes, fill \in BOOLEAN, ek \in {2, 20}, nb \in NameBlobs \ {<<>>}}

CallIdTexts == {<<>>, <<" ">>, <<" ", "i", "d", "1", " ">>}

StatusTexts == {<<"2", "0", "0">>, <<" ", "4", "0", "4", " ">>, <<"9", "9", "9">>, <<>>, <<" ", " ">>, <<"B", "Y", "E">>, <<"U", "N", "K", "N", "O", "W", "N">>}

\* a leg trace of n tokens with the given first token, call id and
\* termination code
SideTrace(n, first, id, code) ==
    [k \in 1..n |->
        IF k = 1 THEN first
        ELSE IF k = 2 THEN id
        ELSE IF k = 13 THEN <<"d", "=", "S", "E", "P", "A">>
        ELSE IF k = 14 THEN <<"d", "=", "S", "E", "P", "B", " ">>
        ELSE IF k = 19 THEN code
        ELSE <<>>]

\* records whose two traces vary the call id and the termination code, and
\* whose egress trace may hold no token with "SIP"
VariantTraceLines ==
    {BuildLine(t, Layout(t).len, FALSE, 0, 0, <<>>,
               (Layout(t).ingr :> <<QUOTE>> \o Join(SideTrace(20, SIP, id, code), COMMA) \o <<QUOTE>>)
               @@ (Layout(t).egr :> <<QUOTE>> \o Join(SideTrace(20, first, id, code), COMMA)
                                      \o <<QUOTE>>)) :
        t \in RecordTypes, id \in CallIdTexts, code \in {<<"2", "0", "0">>, <<>>, <<"B", "Y", "E">>},
        first \in {SIP, <<"H", "3", "2", "3">>}}

Lines == ShortLines \cup TruncatedLines \cup CompleteLines \cup NumericLines
            \cup RtpLines \cup FiveSpanLines \cup VariantTraceLines

\* the double quotes of the line pair up
BalancedQuotes(line) == Len(Positions(line, QUOTE)) % 2 = 0

\* the number of double quotes before position i of the line
QuotesBefore(line, i) ==
    LET Q == Positions(line, QUOTE) IN Cardinality({k \in 1..Len(Q) : Q[k] < i})

\* position i of the line lies strictly inside a quoted span
InQuotedSpan(line, i) ==
    /\ i \in 1..Len(line)
    /\ line[i] # QUOTE
    /\ QuotesBefore(line, i) % 2 = 1

\* the lines whose quoted spans are edited
EditLines ==
       {l \in ShortLines : BalancedQuotes(l)}
    \cup {BuildLine(t, Layout(t).len, TRUE, 2, ek, nb, NoOver) :
             t \in RecordTypes, ek \in {0, 20}, nb \in {<<>>, <<"\"", "A", "l", ",", "J", "r", "\"">>}}

-----------------------------------------------------------------------------
(* The state machine: calls of parse_cdr_to_dict on one line *)

InitLocals ==
    /\ pc = "ready"
    /\ outcome = "none"
    /\ parsed_data = EmptyDict
    /\ fields = <<>>
    /\ cdr_fields_without_prot_data = <<>>
    /\ cdr_fields_parsed = <<>>
    /\ ingr_prot_data = <<>>
    /\ egr_prot_data = <<>>
    /\ calling_name = <<>>
    /\ edit = "none"

\* no helper function is called on its own
NoCall == [fn |-> "none"]

NoResult == <<>>

InitNoCall == call = NoCall /\ result = NoResult

Init == raw_cdr \in Lines /\ InitLocals /\ InitNoCall

ParseCdrToDict ==
    /\ pc = "ready"
    /\ cdr_fields_without_prot_data' = TokUnquoted(raw_cdr)
    /\ fields' = TokFields(raw_cdr)
    /\ cdr_fields_parsed' = TokQuoteSplit(raw_cdr)
    /\ ingr_prot_data' =
          IngrProtData(IngrProtDataCk(safe_get(fields', 0, <<>>), fields'), cdr_fields_parsed')
    /\ egr_prot_data' =
          EgrProtData(IngrProtDataCk(safe_get(fields', 0, <<>>), fields'), cdr_fields_parsed')
    /\ calling_name' = CallingName(cdr_fields_parsed')
    /\ \E r \in {parse_cdr_to_dict(fields', cdr_fields_without_prot_data', cdr_fields_parsed',
                                   TypeBranch(fields', cdr_fields_without_prot_data',
                                              calling_name'))} :
          /\ outcome' = IF r.raised THEN "raised" ELSE "returned"
          /\ parsed_data' = r.parsed_data
    /\ pc' = "done"
    /\ UNCHANGED <<raw_cdr, edit, call, result>>

Next == ParseCdrToDict

Spec == Init /\ [][Next]_vars

-----------------------------------------------------------------------------
(* The same call made again after the caller edits the line inside a quoted *)
(* span; the results of the earlier call stay in place until the next call  *)

InitEdit == raw_cdr \in EditLines /\ InitLocals /\ InitNoCall

\* the caller puts a comma in front of position i, inside a quoted span
InsertQuotedComma ==
    /\ pc = "done" /\ edit = "none"
    /\ BalancedQuotes(raw_cdr)
    /\ \E i \in 2..Len(raw_cdr) :
          /\ QuotesBefore(raw_cdr, i) % 2 = 1
          /\ raw_cdr' = SubSeq(raw_cdr, 1, i - 1) \o <<COMMA>> \o SubSeq(raw_cdr, i, Len(raw_cdr))
    /\ pc' = "ready"
    /\ edit' = "insert"
    /\ UNCHANGED <<outcome, parsed_data, fields, cdr_fields_without_prot_data,
                   cdr_fields_parsed, ingr_prot_data, egr_prot_data, calling_name,
                   call, result>>

\* the caller removes the comma at position i, inside a quoted span
DeleteQuotedComma ==
    /\ pc = "done" /\ edit = "none"
    /\ BalancedQuotes(raw_cdr)
    /\ \E i \in 1..Len(raw_cdr) :
          /\ raw_cdr[i] = COMMA /\ InQuotedSpan(raw_cdr, i)
          /\ raw_cdr' = SubSeq(raw_cdr, 1, i - 1) \o SubSeq(raw_cdr, i + 1, Len(raw_cdr))
    /\ pc' = "ready"
    /\ edit' = "delete"
    /\ UNCHANGED <<outcome, parsed_data, fields, cdr_fields_without_prot_data,
                   cdr_fields_parsed, ingr_prot_data, egr_prot_data, calling_name,
                   call, result>>

NextEdit == ParseCdrToDict \/ InsertQuotedComma \/ DeleteQuotedComma

SpecEdit == InitEdit /\ [][NextEdit]_vars

-----------------------------------------------------------------------------
(* Direct calls of the helper functions *)

\* Largest index handed to safe_get.
MaxIdx == 4

\* Longest contact header, in pieces.
MaxPieces == 5

SeqValues ==
       {[type |-> t, items |-> s] :
            t \in {"list", "tuple"}, s \in {<<>>, <<<<"a">>>>, <<<<"a">>, <<"b">>, <<"c">>>>}}
    \cup {[type |-> "NoneType", items |-> <<>>], [type |-> "int", items |-> <<>>]}

IdxValues ==
       {[type |-> "int", val |-> v] : v \in (0 - 2)..MaxIdx}
    \cup {[type |-> t, val |-> v] : t \in {"bool", "str", "float"}, v \in {0, 1}}
    \cup {[type |-> "NoneType", val |-> 0]}

SafeGetCalls ==
    {[fn |-> "safe_get", seq |-> s, idx |-> i, default |-> d] :
        s \in SeqValues, i \in IdxValues, d \in {<<>>, NA}}

HeaderPieces == {<<"S", "e", "p">>, <<"x", "1">>, <<"=">>, <<" ">>, <<"T", "r", "a", "n", "s", "p", "o", "r", "t">>}

Headers == UNION {{Concat(ps) : ps \in [1..n -> HeaderPieces]} : n \in 0..MaxPieces}

DeviceCalls == {[fn |-> "extract_device_name_from_contact", header |-> h] : h \in Headers}

SideCalls ==
    {[fn |-> "parse_prot_data_side", prot_data |-> SideTrace(n, SIP, id, code),
      side_prefix |-> side, contact_idx |-> c] :
        n \in {0, 18, 19, 20}, id \in CallIdTexts, code \in StatusTexts,
        side \in {"ingress", "egress"}, c \in {12, 13}}

InitHelpers ==
    /\ raw_cdr = <<>>
    /\ InitLocals
    /\ result = NoResult
    /\ \/ call \in SafeGetCalls
       \/ call \in DeviceCalls
       \/ call \in SideCalls

CallDone ==
    /\ pc' = "done"
    /\ UNCHANGED <<raw_cdr, outcome, parsed_data, fields, cdr_fields_without_prot_data,
                   cdr_fields_parsed, ingr_prot_data, egr_prot_data, calling_name, edit,
                   call>>

SafeGet ==
    /\ pc = "ready" /\ call.fn = "safe_get"
    /\ result' = safe_get_any(call.seq, call.idx, call.default)
    /\ CallDone

ExtractDeviceNameFromContact ==
    /\ pc = "ready" /\ call.fn = "extract_device_name_from_contact"
    /\ result' = extract_device_name_from_contact(call.header)
    /\ CallDone

ParseProtDataSide ==
    /\ pc = "ready" /\ call.fn = "parse_prot_data_side"
    /\ result' = parse_prot_data_side(call.prot_data, call.side_prefix, call.contact_idx)
    /\ CallDone

NextHelpers == SafeGet \/ ExtractDeviceNameFromContact \/ ParseProtDataSide

SpecHelpers == InitHelpers /\ [][NextHelpers]_vars
-----------------------------------------------------------------------------
(* The same call made again after the caller appends a comma to the line,  *)
(* which adds an empty last field                                           *)

\* 0-based position of the egress trunk group in the unquoted field list
EgressTgIndex(cdr_type) ==
    IF cdr_type = ATTEMPT THEN 57 ELSE IF cdr_type = STOP THEN 67 ELSE 53

LastFieldTexts == {<<>>, <<"T", "G">>, <<"T", "G", " ">>, <<"T", "G", " ", "\"", "x", "\"">>, <<"\"", "x", "\"", " ", "T", "G">>, <<" ", "\"", "x", "\"">>}

\* records that end at, or one field before, the egress trunk group
TailLines ==
    {BuildLine(t, EgressTgIndex(t) + 1 - short, FALSE, 0, 0, <<>>,
               (EgressTgIndex(t) - short :> last)) :
        t \in RecordTypes, short \in {0, 1}, last \in LastFieldTexts}

TrailLines == Lines \cup TailLines

InitTrail == raw_cdr \in TrailLines /\ InitLocals /\ InitNoCall

\* the caller puts one comma after the last character of the line
AppendTrailingComma ==
    /\ pc = "done" /\ edit = "none"
    /\ raw_cdr' = raw_cdr \o <<COMMA>>
    /\ pc' = "ready"
    /\ edit' = "append"
    /\ UNCHANGED <<outcome, parsed_data, fields, cdr_fields_without_prot_data,
                   cdr_fields_parsed, ingr_prot_data, egr_prot_data, calling_name,
                   call, result>>

NextTrail == ParseCdrToDict \/ AppendTrailingComma

SpecTrail == InitTrail /\ [][NextTrail]_vars


-----------------------------------------------------------------------------
(* Properties *)

Recognised == {START, ATTEMPT, STOP}

Returned == pc = "done" /\ outcome = "returned"

RecognisedReturned == Returned /\ parsed_data["cdr_type"] \in Recognised

\* the keys set before the type branches
CommonKeys ==
    {"calling_name", "ingress_call_id", "ingress_status", "egress_call_id", "egress_status",
     "ing_device_name", "egr_device_name", "cdr_type", "gateway_name", "start_date",
     "start_time"}

\* the keys a type branch always sets
BranchKeys(cdr_type) ==
    {"disconnect_time", "duration", "disconnect_reason", "service_provider",
     "calling_number", "called_number", "billing_number", "route_label",
     "route_attempt_num", "route_selected", "ingress_tg", "disconnect_initiator",
     "egress_tg", "ingress_codec", "egress_codec", "sbc_call_id", "ingress_local_ip",
     "ingress_remote_ip", "ingress_audio_packets_sent", "ingress_audio_packets_rcvd",
     "ingress_packets_lost", "egress_local_ip", "egress_remote_ip",
     "egress_audio_packets_sent", "egress_audio_packets_rcvd", "egress_packets_lost"}
    \cup (IF cdr_type = START THEN {} ELSE {"stop_date"})

IngressRtpKeys == {"ingress_local_rtp_ip", "ingress_remote_rtp_ip"}

EgressRtpKeys == {"egress_local_rtp_ip", "egress_remote_rtp_ip"}

\* C1: every call of parse_cdr_to_dict finishes by returning a mapping; no
\* exception escapes it, whatever the line
C1_Totality == pc = "done" => outcome = "returned"

\* C2: the mapping returned for any line, of a recognised type or not, holds
\* calling_number, called_number, route_label, service_provider, cdr_type,
\* gateway_name, start_date, start_time, ing_device_name and egr_device_name
C2_FixedKeysAnyType ==
    Returned =>
        {"calling_number", "called_number", "route_label", "service_provider", "cdr_type",
         "gateway_name", "start_date", "start_time", "ing_device_name", "egr_device_name"}
            \subseteq DOMAIN parsed_data

\* C2 (amended): every mapping returned holds cdr_type, gateway_name,
\* start_date, start_time, ing_device_name and egr_device_name; it holds
\* calling_number, called_number, route_label and service_provider as well
\* when the first field is START, ATTEMPT or STOP
C2_FixedKeysByType ==
    Returned =>
        /\ {"cdr_type", "gateway_name", "start_date", "start_time", "ing_device_name",
            "egr_device_name"} \subseteq DOMAIN parsed_data
        /\ parsed_data["cdr_type"] \in Recognised =>
              {"calling_number", "called_number", "route_label", "service_provider"}
                  \subseteq DOMAIN parsed_data

\* C2 witness: a mapping returned for a recognised type from a line that is
\* nothing but its type field
C2_Witness == RecognisedReturned /\ Len(fields) = 1

\* C3: the key set of the mapping is the same for all lines of a recognised
\* type, the four RTP keys included
C3_SameKeySet ==
    RecognisedReturned =>
        DOMAIN parsed_data =
            CommonKeys \cup BranchKeys(parsed_data["cdr_type"]) \cup IngressRtpKeys
                \cup EgressRtpKeys

\* C3 (amended): the key set of the mapping is the same for all lines of a
\* recognised type apart from the RTP keys: the ingress pair is present
\* exactly when the ingress RTP field holds a "/", the egress pair exactly
\* when the egress RTP field does
C3_SameKeySetButRtp ==
    RecognisedReturned =>
        LET t == parsed_data["cdr_type"]
            slash(side) == Contains(safe_get(fields, RtpIndex(t, side), <<>>), <<SLASH>>)
        IN  DOMAIN parsed_data =
                CommonKeys \cup BranchKeys(t)
                    \cup (IF slash("ingress") THEN IngressRtpKeys ELSE {})
                    \cup (IF slash("egress") THEN EgressRtpKeys ELSE {})

\* C3 witness: a STOP mapping with the ingress RTP pair and without the egress pair
C3_Witness ==
    /\ RecognisedReturned /\ parsed_data["cdr_type"] = STOP
    /\ IngressRtpKeys \subseteq DOMAIN parsed_data
    /\ EgressRtpKeys \cap DOMAIN parsed_data = {}

\* 0-based position of the field a key of a recognised type is read from
SourceIndex(cdr_type, key) ==
    CASE key = "gateway_name" -> 1
      [] key = "start_date" -> 5
      [] key = "start_time" -> 6
      [] key = "calling_number" ->
            (IF cdr_type = ATTEMPT THEN 16 ELSE IF cdr_type = STOP THEN 19 ELSE 15)
      [] key = "called_number" ->
            (IF cdr_type = ATTEMPT THEN 17 ELSE IF cdr_type = STOP THEN 20 ELSE 16)

\* C4: for a recognised type, a key whose source field is blank or past the
\* end of the line holds "N/A", never the empty string; stated for
\* gateway_name, start_date, start_time, called_number and calling_number
C4_BlankIsSentinel ==
    RecognisedReturned =>
        \A key \in {"gateway_name", "start_date", "start_time", "called_number",
                    "calling_number"} :
            safe_get(fields, SourceIndex(parsed_data["cdr_type"], key), <<>>) = <<>>
                => /\ parsed_data[key] # <<>>
                   /\ (key # "calling_number" \/ calling_name = <<>>) => parsed_data[key] = NA

\* the commas of the line that lie outside every quoted span
UnquotedCommas(line) ==
    LET Q == Positions(line, QUOTE)
        C == Positions(line, COMMA)
    IN  {k \in 1..Len(C) : Cardinality({j \in 1..Len(Q) : Q[j] < C[k]}) % 2 = 0}

\* C5: for a line with balanced quotes, `fields` has one element more than
\* the line has commas outside quoted spans
C5_QuoteSafeFieldCount ==
    (pc = "done" /\ BalancedQuotes(raw_cdr)) =>
        Len(fields) = Cardinality(UnquotedCommas(raw_cdr)) + 1

\* the keys decoded from cdr_fields_without_prot_data that C6 names
UnquotedKeys ==
    {"disconnect_initiator", "egress_tg", "ingress_codec", "egress_codec", "sbc_call_id",
     "ingress_local_ip", "ingress_remote_ip"}

\* C6: after a comma is inserted into or deleted from a quoted span of a
\* line with balanced quotes, the next call computes the same
\* cdr_fields_without_prot_data, and the values decoded from that list are
\* those of the call before the edit
C6_UnquotedFieldsStable ==
    [][(pc = "ready" /\ edit \in {"insert", "delete"}) =>
          /\ cdr_fields_without_prot_data' = cdr_fields_without_prot_data
          /\ (outcome = "returned" /\ outcome' = "returned") =>
                \A key \in UnquotedKeys :
                    /\ key \in DOMAIN parsed_data <=> key \in DOMAIN parsed_data'
                    /\ key \in DOMAIN parsed_data => parsed_data'[key] = parsed_data[key]]_vars

\* C6 witness: a STOP line parsed again after a comma was inserted into a
\* quoted span, with a value decoded from the unquoted list
C6_Witness ==
    /\ RecognisedReturned /\ edit = "insert"
    /\ parsed_data["cdr_type"] = STOP
    /\ parsed_data["egress_tg"] # <<>>
    /\ Len(fields) > Len(cdr_fields_without_prot_data)

\* the top-level field at a 1-based position
FieldAt(n) == safe_get(fields, n - 1, <<>>)

\* C7: for a START record calling_number comes from the field the table
\* labels Calling Number (1-based 15) and called_number from the field it
\* labels Called Number (1-based 16)
C7_StartCallingCalledFields ==
    (RecognisedReturned /\ parsed_data["cdr_type"] = START) =>
        /\ parsed_data["called_number"] = FieldAt(field_mappings_anchor("START", "Called Number"))
        /\ calling_name = <<>> =>
              parsed_data["calling_number"]
                  = FieldAt(field_mappings_anchor("START", "Calling Number"))

\* the text of the quoted segment the calling name is read from
CallingNameText == Strip(safe_get(cdr_fields_parsed, 5, <<>>))

\* C8: for a recognised type calling_number is "<number> (<name>)" when a
\* calling name is present and the bare number when none is
C8_CallingNumberFormat ==
    RecognisedReturned =>
        LET number == safe_get(fields, SourceIndex(parsed_data["cdr_type"], "calling_number"), <<>>)
        IN  parsed_data["calling_number"] =
                IF CallingNameText # <<>>
                THEN number \o <<" ", "(">> \o CallingNameText \o <<")">>
                ELSE number

\* the contents of the quoted spans of a line, in order of appearance
QuotedSpans(line) ==
    LET Q == Positions(line, QUOTE)
    IN  [k \in 1..(Len(Q) \div 2) |-> SubSeq(line, Q[2 * k - 1] + 1, Q[2 * k] - 1)]

\* the comma-split of the trimmed n-th quoted span; no token when the span is
\* blank or missing
SpanTokens(line, n) ==
    LET spans == QuotedSpans(line)
    IN  IF n <= Len(spans) THEN SplitOrEmpty(Strip(spans[n])) ELSE <<>>

\* a token list is dropped when none of its tokens holds "SIP"
DropUnlessSip(tokens) ==
    IF \E i \in 1..Len(tokens) : Contains(tokens[i], SIP) THEN tokens ELSE <<>>

\* the checker field passes the ingress-presence test
CheckerPasses ==
    LET ck == IngrProtDataCk(safe_get(fields, 0, <<>>), fields)
    IN  Contains(ck, SIP) \/ Contains(ck, GSX2GSX)

\* C9: with balanced quotes and a passing checker field, the ingress tokens
\* come from the 1st quoted span, the egress tokens from the 3rd and the
\* calling name from the 5th
C9_SpanOrdinals135 ==
    (pc = "done" /\ BalancedQuotes(raw_cdr) /\ CheckerPasses) =>
        /\ ingr_prot_data = SpanTokens(raw_cdr, 1)
        /\ egr_prot_data = DropUnlessSip(SpanTokens(raw_cdr, 3))
        /\ calling_name = SpanTokens(raw_cdr, 5)

\* C9 (amended): with balanced quotes and a passing checker field, the
\* ingress tokens are the comma-split of the trimmed 1st quoted span, the
\* egress tokens that of the 2nd quoted span (none when no token holds
\* "SIP") and the calling name that of the 3rd; a blank or missing span
\* gives no tokens
C9_SpanOrdinals123 ==
    (pc = "done" /\ BalancedQuotes(raw_cdr) /\ CheckerPasses) =>
        /\ ingr_prot_data = SpanTokens(raw_cdr, 1)
        /\ egr_prot_data = DropUnlessSip(SpanTokens(raw_cdr, 2))
        /\ calling_name = SpanTokens(raw_cdr, 3)

\* C9 witness: a parsed line of five quoted spans with a passing checker
\* field, an egress trace and a calling name
C9_Witness ==
    /\ pc = "done" /\ BalancedQuotes(raw_cdr) /\ CheckerPasses
    /\ Len(QuotedSpans(raw_cdr)) = 5
    /\ egr_prot_data # <<>>
    /\ calling_name # <<>>

\* C10: a leg trace of fewer than 19 tokens leaves the call id, the status
\* and the device name of its side at "N/A" in the mapping returned
C10_ShortTraceDefaults ==
    Returned =>
        /\ Len(ingr_prot_data) < 19 =>
              /\ parsed_data["ingress_call_id"] = NA
              /\ parsed_data["ingress_status"] = NA
              /\ parsed_data["ing_device_name"] = NA
        /\ Len(egr_prot_data) < 19 =>
              /\ parsed_data["egress_call_id"] = NA
              /\ parsed_data["egress_status"] = NA
              /\ parsed_data["egr_device_name"] = NA

\* C10 witness: mappings returned for an ingress and an egress trace of 18
\* tokens each
C10_Witness == Returned /\ Len(ingr_prot_data) = 18 /\ Len(egr_prot_data) = 18

-----------------------------------------------------------------------------
(* Leg status, device name *)

\* "<code> (<friendly name>)" for a trimmed termination code
StatusOf(code) ==
    (IF code = <<>> THEN <<"U", "N", "K", "N", "O", "W", "N">> ELSE code) \o <<" ", "(">>
        \o (IF code = <<"B", "Y", "E">> THEN <<"B", "Y", "E">>
            ELSE DictGet(sip_cause_code_mapping,
                         <<"s", "i", "p", "_">> \o (IF code = <<>> THEN <<"U", "N", "K", "N", "O", "W", "N">> ELSE code),
                         UNKNOWN_CODE))
        \o <<")">>

SideCallDone == pc = "done" /\ call.fn = "parse_prot_data_side"

\* C11: for a leg trace of at least 19 tokens the status is
\* "<code> (<friendly name>)": code is the trimmed 19th token or UNKNOWN when
\* it is empty; the name is the table entry of "sip_" + code, "Unknown Code"
\* without an entry, and "BYE" for the code BYE whatever the table holds
C11_StatusRendering ==
    (SideCallDone /\ Len(call.prot_data) >= 19) =>
        result[StatusKey(call.side_prefix)] = StatusOf(Strip(call.prot_data[19]))

\* C11 witness: a trace of 19 tokens or more whose code is BYE, which the
\* table has an entry for
C11_Witness ==
    /\ SideCallDone /\ Len(call.prot_data) >= 19
    /\ Strip(call.prot_data[19]) = <<"B", "Y", "E">>
    /\ <<"s", "i", "p", "_", "B", "Y", "E">> \in DOMAIN sip_cause_code_mapping
    /\ result[StatusKey(call.side_prefix)] = <<"B", "Y", "E", " ", "(", "B", "Y", "E", ")">>

DeviceCallDone == pc = "done" /\ call.fn = "extract_device_name_from_contact"

\* the header holds one of the markers csf, sep, vms in any letter case
HasMarker(header) == \E m \in {<<"c", "s", "f">>, <<"s", "e", "p">>, <<"v", "m", "s">>} : Contains(Lower(header), m)

HasTransport(header) == Contains(Lower(header), <<"t", "r", "a", "n", "s", "p", "o", "r", "t">>)

\* the trimmed n-th '='-delimited segment of the header, empty when missing
Segment(header, n) ==
    IF n <= Len(Split(header, EQUALS)) THEN Strip(Split(header, EQUALS)[n]) ELSE <<>>

\* C12: extract_device_name_from_contact gives "N/A" for a header without a
\* marker; with one it gives the trimmed 3rd '='-segment when the header
\* holds "transport" and the trimmed 2nd when not, "N/A" when that segment
\* is missing or blank
C12_DeviceName ==
    DeviceCallDone =>
        result = IF ~HasMarker(call.header) THEN NA
                 ELSE IF HasTransport(call.header)
                      THEN (IF Segment(call.header, 3) = <<>> THEN NA
                            ELSE Segment(call.header, 3))
                      ELSE (IF Segment(call.header, 2) = <<>> THEN NA
                            ELSE Segment(call.header, 2))

\* C12 witness: a header with a marker and "transport" whose 3rd segment is
\* returned and differs from its 2nd
C12_Witness ==
    /\ DeviceCallDone
    /\ HasMarker(call.header) /\ HasTransport(call.header)
    /\ result # NA
    /\ result = Segment(call.header, 3)
    /\ result # Segment(call.header, 2)

-----------------------------------------------------------------------------
(* Duration and packets lost of a STOP record *)

StopDone == pc = "done" /\ safe_get(fields, 0, <<>>) = STOP

\* a natural number in plain decimal digits, no leading zero
PlainNat(s) ==
    /\ s # <<>>
    /\ \A i \in 1..Len(s) : s[i] \in Digits
    /\ Len(s) = 1 \/ s[1] # "0"

\* a negative number in plain decimal digits
PlainNeg(s) == Len(s) > 1 /\ s[1] = "-" /\ PlainNat(Tail(s)) /\ s[2] # "0"

\* no digit at all: blank, or text such as "abc"
NoDigit(s) == \A i \in 1..Len(s) : s[i] \notin Digits

DurationRaw == safe_get(fields, 13, <<>>)

\* the value is a float, given by its count of hundredths
IsFloat(v) == v # <<>> /\ v[1] = "float: hundredths"

\* C13: for a STOP record a duration field that is an integer n in decimal
\* digits gives the number n / 100 ("306" gives 3.06), and a field that is
\* no integer (text without a digit, or blank) gives "N/A"
C13_DurationHundredths ==
    StopDone =>
        /\ PlainNat(DurationRaw) =>
              /\ outcome = "returned"
              /\ parsed_data["duration"] = <<"float: hundredths">> \o DurationRaw
        /\ (NoDigit(DurationRaw) /\ outcome = "returned") => parsed_data["duration"] = NA

\* C14: for a STOP line the duration returned is a number that is at least 0
\* or the string "N/A"
C14_DurationNonNegative ==
    (StopDone /\ outcome = "returned") =>
        \/ parsed_data["duration"] = NA
        \/ IsFloat(parsed_data["duration"]) /\ parsed_data["duration"][2] # "-"

\* "<lost> (<pct>%)" where pct is 100 * lost / rcvd to one decimal place:
\* the tenths printed are within half a tenth of the exact percentage
IsPctText(v, lost, rcvd) ==
    \E t \in {(MagVal(lost) * 1000) \div MagVal(rcvd), (MagVal(lost) * 1000) \div MagVal(rcvd) + 1} :
        /\ 2 * (MagVal(lost) * 1000 - t * MagVal(rcvd)) <= MagVal(rcvd)
        /\ 2 * (t * MagVal(rcvd) - MagVal(lost) * 1000) <= MagVal(rcvd)
        /\ v = lost \o <<" ", "(">> \o NatStr(t \div 10) \o <<".">> \o NatStr(t % 10) \o <<"%", ")">>

\* the packets-lost value v of one side, from the raw received and lost counts
PacketsLostAsSpecified(v, rcvd, lost) ==
    /\ ((NoDigit(rcvd) \/ NoDigit(lost)) /\ outcome = "returned") => v = lost
    /\ (PlainNat(rcvd) /\ rcvd # <<"0">> /\ PlainNat(lost)) =>
          /\ outcome = "returned"
          /\ (Len(rcvd) <= SmallDigits /\ Len(lost) <= SmallDigits) => IsPctText(v, lost, rcvd)
    /\ (/\ PlainNat(rcvd) \/ PlainNeg(rcvd)
        /\ PlainNat(lost) \/ PlainNeg(lost)
        /\ rcvd = <<"0">> \/ PlainNeg(rcvd) \/ PlainNeg(lost)
        /\ outcome = "returned") => v = lost

\* C15: for a STOP record and each side, the packets-lost value is the raw
\* text when the lost or the received count is no integer, "<lost> (<pct>%)"
\* with pct to one decimal place when rcvd > 0 and lost >= 0, and the decimal
\* text of lost in every other case
C15_PacketsLostRendering ==
    StopDone =>
        /\ PacketsLostAsSpecified(
               IF outcome = "returned" THEN parsed_data["ingress_packets_lost"] ELSE <<>>,
               safe_get(fields, 41, <<>>), safe_get(cdr_fields_without_prot_data, 64, <<>>))
        /\ PacketsLostAsSpecified(
               IF outcome = "returned" THEN parsed_data["egress_packets_lost"] ELSE <<>>,
               safe_get(cdr_fields_without_prot_data, 147, <<>>),
               safe_get(cdr_fields_without_prot_data, 148, <<>>))

-----------------------------------------------------------------------------
(* RTP ip:port pairs *)

\* the trimmed RTP ip:port field of one side
RtpField(side) == Strip(safe_get(fields, RtpIndex(parsed_data["cdr_type"], side), <<>>))

\* the value v of a side's two RTP keys follows a split at the first "/"
SplitOnceAtSlash(side, local_key, remote_key) ==
    IF Contains(RtpField(side), <<SLASH>>)
    THEN /\ {local_key, remote_key} \subseteq DOMAIN parsed_data
         /\ parsed_data[local_key] =
                SubSeq(RtpField(side), 1, Positions(RtpField(side), SLASH)[1] - 1)
         /\ parsed_data[remote_key] =
                SubSeq(RtpField(side), Positions(RtpField(side), SLASH)[1] + 1,
                       Len(RtpField(side)))
    ELSE {local_key, remote_key} \cap DOMAIN parsed_data = {}

\* C16: for a recognised type an RTP ip:port field holding "/" is split once,
\* at its first "/": the local value is the text before it and the remote
\* value all the text after it, further "/" included; a field without "/"
\* sets neither key
C16_RtpSplitOnce ==
    RecognisedReturned =>
        /\ SplitOnceAtSlash("ingress", "ingress_local_rtp_ip", "ingress_remote_rtp_ip")
        /\ SplitOnceAtSlash("egress", "egress_local_rtp_ip", "egress_remote_rtp_ip")

-----------------------------------------------------------------------------
(* safe_get *)

SafeGetCallDone == pc = "done" /\ call.fn = "safe_get"

\* idx is an integer that indexes an item of seq
IndexInRange(seq, idx) ==
    /\ seq.type \in {"list", "tuple"}
    /\ idx.type \in {"int", "bool"}
    /\ 0 <= idx.val /\ idx.val < Len(seq.items)

\* C17: safe_get never raises; it returns seq[idx] exactly when idx is an
\* integer with 0 <= idx < len(seq), and the default when seq is None, when
\* idx is negative or past the end, and when idx is no integer
C17_SafeGetTotal ==
    SafeGetCallDone =>
        /\ ~result.raised
        /\ call.seq.type \in {"NoneType", "list", "tuple"} =>
              result.value = IF IndexInRange(call.seq, call.idx)
                             THEN call.seq.items[call.idx.val + 1]
                             ELSE call.default

\* C17 witness: the last of three items is returned, not the default
C17_Witness ==
    /\ SafeGetCallDone
    /\ call.seq.type = "list" /\ Len(call.seq.items) = 3
    /\ call.idx.type = "int" /\ call.idx.val = 2
    /\ result.value = <<"c">> /\ result.value # call.default

-----------------------------------------------------------------------------
(* Unrecognised record type, leg presence, leg token positions *)

\* C18: for a line whose first field is none of START, ATTEMPT, STOP the call
\* returns, and the mapping holds the type-agnostic keys and no other key
C18_UnrecognisedTypeKeys ==
    (pc = "done" /\ safe_get(fields, 0, <<>>) \notin Recognised) =>
        /\ outcome = "returned"
        /\ DOMAIN parsed_data = CommonKeys

\* C18 witness: a complete record of an unrecognised type whose traces were
\* decoded
C18_Witness ==
    /\ Returned /\ parsed_data["cdr_type"] \notin Recognised
    /\ Len(fields) > 100
    /\ parsed_data["egress_status"] # NA
    /\ "duration" \notin DOMAIN parsed_data

\* the three keys of one leg hold the default
LegIsDefault(call_id_key, status_key, device_key) ==
    /\ parsed_data[call_id_key] = NA
    /\ parsed_data[status_key] = NA
    /\ parsed_data[device_key] = NA

\* C19: when the checker field holds neither "SIP" nor "GSX2GSX" the three
\* ingress keys are "N/A" and the egress trace is taken from the first quoted
\* span; and when no token of the egress token list holds "SIP" the three
\* egress keys are "N/A"
C19_LegPresence ==
    (RecognisedReturned /\ BalancedQuotes(raw_cdr)) =>
        /\ ~CheckerPasses =>
              /\ LegIsDefault("ingress_call_id", "ingress_status", "ing_device_name")
              /\ egr_prot_data = DropUnlessSip(SpanTokens(raw_cdr, 1))
        /\ DropUnlessSip(SpanTokens(raw_cdr, IF CheckerPasses THEN 2 ELSE 1)) = <<>> =>
              LegIsDefault("egress_call_id", "egress_status", "egr_device_name")

\* C19 witness: the checker field fails and the first quoted span is decoded
\* as the egress trace
C19_Witness ==
    /\ RecognisedReturned /\ BalancedQuotes(raw_cdr) /\ ~CheckerPasses
    /\ Len(egr_prot_data) >= 19
    /\ parsed_data["egress_status"] # NA
    /\ parsed_data["ingress_status"] = NA

\* the call id, status and device name that the tokens of a leg trace give,
\* the contact header being token contact
LegFromTokens(tokens, contact, call_id_key, status_key, device_key) ==
    /\ parsed_data[call_id_key] = IF Strip(tokens[2]) = <<>> THEN NA ELSE Strip(tokens[2])
    /\ parsed_data[status_key] = StatusOf(Strip(tokens[19]))
    /\ parsed_data[device_key] = extract_device_name_from_contact(tokens[contact])

\* C20: in a leg trace of 19 tokens or more, counted from 1, the call id is
\* token 2 (trimmed, "N/A" when empty), the termination code is token 19 and
\* the contact header is token 13 for the ingress leg, token 14 for the
\* egress leg
C20_LegTokenPositions ==
    Returned =>
        /\ Len(ingr_prot_data) >= 19 =>
              LegFromTokens(ingr_prot_data, 13, "ingress_call_id", "ingress_status",
                            "ing_device_name")
        /\ Len(egr_prot_data) >= 19 =>
              LegFromTokens(egr_prot_data, 14, "egress_call_id", "egress_status",
                            "egr_device_name")

\* C20 witness: both legs decoded, with device names taken from two
\* different contact headers and a blank call id on one record
C20_Witness ==
    /\ Returned /\ Len(ingr_prot_data) >= 19 /\ Len(egr_prot_data) >= 19
    /\ parsed_data["ing_device_name"] # NA
    /\ parsed_data["egr_device_name"] # NA
    /\ parsed_data["ing_device_name"] # parsed_data["egr_device_name"]
    /\ egr_prot_data[13] # egr_prot_data[14]
    /\ Strip(ingr_prot_data[2]) = <<>> /\ parsed_data["ingress_call_id"] = NA
-----------------------------------------------------------------------------
(* Claim C21 *)

\* the line as it was before the comma was appended
LineBeforeAppend == SubSeq(raw_cdr, 1, Len(raw_cdr) - 1)

\* the last character of the line, if any, is no whitespace
NoTrailingWhitespace(line) == line = <<>> \/ line[Len(line)] \notin Whitespace

\* the line is about to be parsed again after the comma was appended
AppendedReady == pc = "ready" /\ edit = "append"

\* C21: for a line with balanced double quotes and no trailing whitespace,
\* the call made after one trailing comma is appended ends as the call before
\* did and returns the same mapping, key for key and value for value
C21_TrailingCommaInvariance ==
    [][(/\ AppendedReady
        /\ BalancedQuotes(LineBeforeAppend)
        /\ NoTrailingWhitespace(LineBeforeAppend))
          => /\ outcome' = outcome
             /\ outcome = "returned" => parsed_data' = parsed_data]_vars

=============================================================================
